---- MODULE Spec2Model ----
(***************************************************************************)
(* A model of four independent routines: the divide-and-conquer convex     *)
(* hull (ConvexHull.py), median finding (MedianFinding.py) and weighted    *)
(* interval scheduling (WeightedIntervalScheduling.py).                    *)
(*                                                                         *)
(* Numbers.  The Python code computes in floats.  The model computes the   *)
(* same quantities exactly: a quotient is kept as a numerator and a        *)
(* denominator and two quotients are compared by cross-multiplication.     *)
(* The vertical divider (a + b) / 2 is kept as its double, a + b.          *)
(* A Python exception is an outcome: a record whose status names it.       *)
(***************************************************************************)
EXTENDS Integers, Sequences, FiniteSets, TLC

VARIABLES pc,          \* position of the running call
          points,      \* argument of solve / brute_force
          n,           \* base-case size given to solve
          result,      \* outcome of solve / brute_force / cut_and_paste
          left_sub,    \* left hull given to two_finger / cut_and_paste
          right_sub,   \* right hull given to two_finger / cut_and_paste
          vert,        \* twice the vertical divider given to two_finger
          i,           \* left finger of two_finger
          j,           \* right finger of two_finger
          moves,       \* finger moves made in the current loop of two_finger
          visited,     \* finger pairs <<i, j>> the current loop has been at
          upper_tangent,
          lower_tangent,
          nums,        \* argument of fast_median
          median,      \* outcome of fast_median, and of naive_median
          intervals,   \* argument of solve_wis
          wis          \* outcome of solve_wis

hullVars   == <<points, n, result>>
fingerVars == <<left_sub, right_sub, vert, i, j, moves, visited,
               upper_tangent, lower_tangent>>
medianVars == <<nums, median>>
wisVars    == <<intervals, wis>>
vars == <<pc, hullVars, fingerVars, medianVars, wisVars>>

----------------------------------------------------------------------------
\* Outcomes of a call

Ok(v)  == [status |-> "ok", value |-> v]
Err(e) == [status |-> e, value |-> <<>>]
None   == [status |-> "none", value |-> <<>>]

Range(s) == {s[k] : k \in 1..Len(s)}

----------------------------------------------------------------------------
\* ConvexHull.py: a point is <<x, y>>

\* initialize: points.sort(key = x), a stable sort
RECURSIVE initialize(_)
initialize(pts) ==
    IF pts = <<>> THEN <<>>
    ELSE LET init == initialize(SubSeq(pts, 1, Len(pts) - 1))
             p    == pts[Len(pts)]
             k    == Cardinality({q \in 1..Len(init) : init[q][1] <= p[1]})
         IN  SubSeq(init, 1, k) \o <<p>> \o SubSeq(init, k + 1, Len(init))

\* divide: m = len // 2; (points[:m], points[m:])
divide(pts) ==
    LET m == Len(pts) \div 2
    IN  <<SubSeq(pts, 1, m), SubSeq(pts, m + 1, Len(pts))>>

\* compute_vertical, doubled: left_sub[-1][0] + right_sub[0][0].
\* left_sub[-1] of an empty list raises IndexError.
compute_vertical(l, r) ==
    IF l = <<>> \/ r = <<>> THEN Err("IndexError")
    ELSE Ok(l[Len(l)][1] + r[1][1])

\* theta of polar_sort as an exact order.  With d the vector from the centre
\* to the point: theta = 0 on the positive x-axis (and for d = 0), in (0, pi)
\* for dy > 0, pi on the negative x-axis, in (pi, 2 pi) for dy < 0.
sector(d) ==
    IF d[2] > 0 THEN 1
    ELSE IF d[2] < 0 THEN 3
    ELSE IF d[1] < 0 THEN 2 ELSE 0

thetaLess(d, e) ==
    \/ sector(d) < sector(e)
    \/ /\ sector(d) = sector(e)
       /\ sector(d) \in {1, 3}
       /\ d[1] * e[2] - d[2] * e[1] > 0

RECURSIVE SumX(_)
SumX(pts) == IF pts = <<>> THEN 0 ELSE pts[1][1] + SumX(Tail(pts))
RECURSIVE SumY(_)
SumY(pts) == IF pts = <<>> THEN 0 ELSE pts[1][2] + SumY(Tail(pts))

\* p - center, scaled by len(points) > 0 (the direction is unchanged)
delta(p, pts) == <<Len(pts) * p[1] - SumX(pts), Len(pts) * p[2] - SumY(pts)>>

\* points.sort(key = theta, reverse = True): stable, descending theta
RECURSIVE sortByThetaDesc(_, _)
sortByThetaDesc(pts, all) ==
    IF pts = <<>> THEN <<>>
    ELSE LET init == sortByThetaDesc(SubSeq(pts, 1, Len(pts) - 1), all)
             p    == pts[Len(pts)]
             k    == Cardinality({q \in 1..Len(init) :
                          ~ thetaLess(delta(init[q], all), delta(p, all))})
         IN  SubSeq(init, 1, k) \o <<p>> \o SubSeq(init, k + 1, Len(init))

\* polar_sort(points) with reverse = False: center[0] /= len(points) divides
\* by zero for an empty list
polar_sort(pts) ==
    IF pts = <<>> THEN Err("ZeroDivisionError")
    ELSE Ok(sortByThetaDesc(pts, pts))

\* g(p[1]) > p[0] in is_tangent, for a segment that is neither vertical nor
\* horizontal: g(y) = (y - b) / m = (y - y2) * dx / dy + x2
onLeft(s0, s1, p) ==
    LET dx == s1[1] - s0[1]
        dy == s1[2] - s0[2]
    IN  IF dy > 0 THEN (p[2] - s1[2]) * dx > (p[1] - s1[1]) * dy
        ELSE (p[2] - s1[2]) * dx < (p[1] - s1[1]) * dy

\* is_tangent(segment): "yes", "no", or "error" when g divides by zero: by
\* dx = 0 in m, or by m = 0.  g is first applied to the first point that is
\* neither end of the segment, before any return.
is_tangent(pts, s0, s1) ==
    LET others == {k \in 1..Len(pts) : pts[k] # s0 /\ pts[k] # s1}
        left   == {k \in others : onLeft(s0, s1, pts[k])}
    IN  IF others = {} THEN "yes"
        ELSE IF s1[1] = s0[1] \/ s1[2] = s0[2] THEN "error"
        ELSE IF left # {} /\ left # others THEN "no"
        ELSE "yes"

\* subhull.append(p) guarded by added_points
addPoint(subhull, p) ==
    IF p \in Range(subhull) THEN subhull ELSE Append(subhull, p)

\* the two loops of findTangents, from segment (points[a], points[b])
RECURSIVE findTangentsFrom(_, _, _, _)
findTangentsFrom(pts, a, b, subhull) ==
    IF a > Len(pts) - 1 THEN Ok(subhull)
    ELSE IF b > Len(pts) THEN findTangentsFrom(pts, a + 1, a + 2, subhull)
    ELSE LET t == is_tangent(pts, pts[a], pts[b])
         IN  IF t = "error" THEN Err("ZeroDivisionError")
             ELSE findTangentsFrom(pts, a, b + 1,
                      IF t = "yes"
                      THEN addPoint(addPoint(subhull, pts[a]), pts[b])
                      ELSE subhull)

\* brute_force(points) = findTangents()
brute_force(pts) ==
    LET sub == findTangentsFrom(pts, 1, 2, <<>>)
    IN  IF sub.status # "ok" THEN sub ELSE polar_sort(sub.value)

\* 0-based indexing of a Python list
At(s, k) == s[k + 1]

\* vert_intercept(p1, p2, vertical) as the quotient <<numerator, denominator>>
\* of y1 + (y2 - y1) / (x2 - x1) * (vertical - x1), with v = 2 * vertical
vert_intercept(p1, p2, v) ==
    <<2 * p1[2] * (p2[1] - p1[1]) + (p2[2] - p1[2]) * (v - 2 * p1[1]),
      2 * (p2[1] - p1[1])>>

\* a > b for two quotients with non-zero denominators
greater(a, b) == (a[1] * b[2] - b[1] * a[2]) * a[2] * b[2] > 0

\* m = (y2 - y1) / (x2 - x1) raises ZeroDivisionError
undefinedIntercept(p1, p2) == p1[1] = p2[1]

\* Mutant of upperMove: the left finger is never tested
upperMoveRightOnly(l, r, v, fi, fj) ==
    LET jn == (fj + 1) % Len(r)
        y1 == vert_intercept(At(l, fi), At(r, jn), v)
        y2 == vert_intercept(At(l, fi), At(r, fj), v)
    IN  IF greater(y1, y2) THEN [kind |-> "right", i |-> fi, j |-> jn]
        ELSE [kind |-> "stop", i |-> fi, j |-> fj]

\* Mutant of upperMove: the right finger moves on y1 >= y2
upperMoveNonStrict(l, r, v, fi, fj) ==
    LET jn == (fj + 1) % Len(r)
        ip == (fi - 1) % Len(l)
        y1 == vert_intercept(At(l, fi), At(r, jn), v)
        y2 == vert_intercept(At(l, fi), At(r, fj), v)
        y3 == vert_intercept(At(l, ip), At(r, fj), v)
    IN  IF ~ greater(y2, y1) THEN [kind |-> "right", i |-> fi, j |-> jn]
        ELSE IF greater(y3, y2) THEN [kind |-> "left", i |-> ip, j |-> fj]
        ELSE [kind |-> "stop", i |-> fi, j |-> fj]

\* One iteration of the first while loop of two_finger on non-empty hulls:
\* the fingers after it, and whether the right finger moved ("right"), the
\* left finger moved ("left"), the loop broke ("stop") or raised ("error").
upperMove(l, r, v, fi, fj) ==
    LET jn == (fj + 1) % Len(r)
        ip == (fi - 1) % Len(l)
    IN  IF \/ undefinedIntercept(At(l, fi), At(r, jn))
           \/ undefinedIntercept(At(l, fi), At(r, fj))
           \/ undefinedIntercept(At(l, ip), At(r, fj))
        THEN [kind |-> "error", i |-> fi, j |-> fj]
        ELSE LET y1 == vert_intercept(At(l, fi), At(r, jn), v)
                 y2 == vert_intercept(At(l, fi), At(r, fj), v)
                 y3 == vert_intercept(At(l, ip), At(r, fj), v)
             IN  IF greater(y1, y2) THEN [kind |-> "right", i |-> fi, j |-> jn]
                 ELSE IF greater(y3, y2) THEN [kind |-> "left", i |-> ip, j |-> fj]
                 ELSE [kind |-> "stop", i |-> fi, j |-> fj]

\* One iteration of the second while loop of two_finger
lowerMove(l, r, v, fi, fj) ==
    LET jp == (fj - 1) % Len(r)
        in == (fi + 1) % Len(l)
    IN  IF \/ undefinedIntercept(At(l, fi), At(r, jp))
           \/ undefinedIntercept(At(l, fi), At(r, fj))
           \/ undefinedIntercept(At(l, in), At(r, fj))
        THEN [kind |-> "error", i |-> fi, j |-> fj]
        ELSE LET y1 == vert_intercept(At(l, fi), At(r, jp), v)
                 y2 == vert_intercept(At(l, fi), At(r, fj), v)
                 y3 == vert_intercept(At(l, in), At(r, fj), v)
             IN  IF greater(y2, y1) THEN [kind |-> "right", i |-> fi, j |-> jp]
                 ELSE IF greater(y2, y3) THEN [kind |-> "left", i |-> in, j |-> fj]
                 ELSE [kind |-> "stop", i |-> fi, j |-> fj]

\* the first while loop, run to its break
RECURSIVE upperLoop(_, _, _, _, _)
upperLoop(l, r, v, fi, fj) ==
    LET mv == upperMove(l, r, v, fi, fj)
    IN  IF mv.kind = "error" THEN Err("ZeroDivisionError")
        ELSE IF mv.kind = "stop" THEN Ok(<<At(l, fi), At(r, fj)>>)
        ELSE upperLoop(l, r, v, mv.i, mv.j)

\* the second while loop, run to its break
RECURSIVE lowerLoop(_, _, _, _, _)
lowerLoop(l, r, v, fi, fj) ==
    LET mv == lowerMove(l, r, v, fi, fj)
    IN  IF mv.kind = "error" THEN Err("ZeroDivisionError")
        ELSE IF mv.kind = "stop" THEN Ok(<<At(l, fi), At(r, fj)>>)
        ELSE lowerLoop(l, r, v, mv.i, mv.j)

\* two_finger(left_sub, right_sub, vert) = (upper_tangent, lower_tangent)
two_finger(l, r, v) ==
    LET up == upperLoop(l, r, v, 0, 0)
    IN  IF up.status # "ok" THEN up
        ELSE LET lo == lowerLoop(l, r, v, 0, 0)
             IN  IF lo.status # "ok" THEN lo
                 ELSE Ok(<<up.value, lo.value>>)

\* list.index(p), 0-based, for p in the list
index(s, p) == (CHOOSE k \in 1..Len(s) : s[k] = p /\ \A q \in 1..(k - 1) : s[q] # p) - 1

\* Mutant of walk: the index steps backwards, k = (k - 1) % len(s)
RECURSIVE walkBackwards(_, _, _, _)
walkBackwards(s, k, stop, hull) ==
    IF At(s, k) = stop THEN [hull |-> hull, k |-> k]
    ELSE walkBackwards(s, (k - 1) % Len(s), stop, Append(hull, At(s, k)))

\* while s[k] != stop: hull.append(s[k]); k = (k + 1) % len(s), for stop in s
RECURSIVE walk(_, _, _, _)
walk(s, k, stop, hull) ==
    IF At(s, k) = stop THEN [hull |-> hull, k |-> k]
    ELSE walk(s, (k + 1) % Len(s), stop, Append(hull, At(s, k)))

\* cut_and_paste(left_sub, right_sub, upper_tangent, lower_tangent).
\* index raises ValueError for a point that is not in the hull; a while loop
\* whose stop point is not in the hull never ends.
cut_and_paste(l, r, upper, lower) ==
    IF upper[2] \notin Range(r) THEN Err("ValueError")
    ELSE IF lower[2] \notin Range(r) THEN Err("loops forever")
    ELSE LET w  == walk(r, index(r, upper[2]), lower[2], <<upper[1]>>)
             h1 == Append(w.hull, At(r, w.k))
         IN  IF lower[1] \notin Range(l) THEN Err("ValueError")
             ELSE IF upper[1] \notin Range(l) THEN Err("loops forever")
             ELSE Ok(walk(l, index(l, lower[1]), upper[1], h1).hull)

\* while hull[0] != p: hull.rotate(1), for p in the hull
RECURSIVE rotateUntil(_, _)
rotateUntil(hull, p) ==
    IF hull[1] = p THEN hull
    ELSE rotateUntil(<<hull[Len(hull)]>> \o SubSeq(hull, 1, Len(hull) - 1), p)

\* the rotate loops of recurse; a hull without p is rotated for ever
rotateTo(hull, p) ==
    IF p \notin Range(hull) THEN Err("loops forever") ELSE Ok(rotateUntil(hull, p))

\* solve.recurse(points, vertical) with base-case size n0
RECURSIVE recurse(_, _)
recurse(pts, n0) ==
    IF Len(pts) <= n0 THEN brute_force(pts)
    ELSE LET divided      == divide(pts)
             left_points  == divided[1]
             right_points == divided[2]
             vertical     == compute_vertical(left_points, right_points)
         IN  IF vertical.status # "ok" THEN vertical
             ELSE LET left_hull == recurse(left_points, n0)
                  IN  IF left_hull.status # "ok" THEN left_hull
                      ELSE LET right_hull == recurse(right_points, n0)
                           IN  IF right_hull.status # "ok" THEN right_hull
                               ELSE LET lh == rotateTo(left_hull.value, left_points[Len(left_points)])
                                        rh == rotateTo(right_hull.value, right_points[1])
                                    IN  IF lh.status # "ok" THEN lh
                                        ELSE IF rh.status # "ok" THEN rh
                                        ELSE LET tangents == two_finger(lh.value, rh.value, vertical.value)
                                             IN  IF tangents.status # "ok" THEN tangents
                                                 ELSE cut_and_paste(lh.value, rh.value,
                                                          tangents.value[1], tangents.value[2])

\* solve(points, n)
solve(pts, n0) ==
    LET sorted   == initialize(pts)
        divided  == divide(sorted)
        vertical == compute_vertical(divided[1], divided[2])
    IN  IF vertical.status # "ok" THEN vertical ELSE recurse(sorted, n0)


----------------------------------------------------------------------------
\* Geometry the claims are stated in

\* twice the signed area of o, a, b: > 0 when b is to the left of o -> a
cross(o, a, b) == (a[1] - o[1]) * (b[2] - o[2]) - (a[2] - o[2]) * (b[1] - o[1])

\* pairwise-distinct x-coordinates and no three points on a line
GeneralPosition(S) ==
    /\ \A p, q \in S : p # q => p[1] # q[1]
    /\ \A p, q, r \in S : (p # q /\ q # r /\ p # r) => cross(p, q, r) # 0

\* p lies in the closed triangle (or segment, or point) a, b, c
InTriangle(p, a, b, c) ==
    LET d1 == cross(a, b, p)
        d2 == cross(b, c, p)
        d3 == cross(c, a, p)
    IN  /\ ~ ((d1 < 0 \/ d2 < 0 \/ d3 < 0) /\ (d1 > 0 \/ d2 > 0 \/ d3 > 0))
        /\ (cross(a, b, c) = 0 =>
               /\ p[1] >= a[1] \/ p[1] >= b[1] \/ p[1] >= c[1]
               /\ p[1] <= a[1] \/ p[1] <= b[1] \/ p[1] <= c[1]
               /\ p[2] >= a[2] \/ p[2] >= b[2] \/ p[2] >= c[2]
               /\ p[2] <= a[2] \/ p[2] <= b[2] \/ p[2] <= c[2])

\* the vertices of the convex hull of S: the points of S that are in no
\* triangle of other points of S
HullVertices(S) ==
    {p \in S : \A a, b, c \in S \ {p} : ~ InTriangle(p, a, b, c)}

Next1(h, k) == h[(k % Len(h)) + 1]

\* h lists distinct points, and each point of h other than the ends of an edge
\* lies strictly to the right of that edge: a convex polygon, clockwise
ClockwiseConvex(h) ==
    /\ \A a, b \in 1..Len(h) : a # b => h[a] # h[b]
    /\ \A k \in 1..Len(h) : \A q \in Range(h) \ {h[k], Next1(h, k)} :
           cross(h[k], Next1(h, k), q) < 0

\* the same with either orientation
ConvexPolygon(h) ==
    /\ \A a, b \in 1..Len(h) : a # b => h[a] # h[b]
    /\ \/ \A k \in 1..Len(h) : \A q \in Range(h) \ {h[k], Next1(h, k)} :
              cross(h[k], Next1(h, k), q) < 0
       \/ \A k \in 1..Len(h) : \A q \in Range(h) \ {h[k], Next1(h, k)} :
              cross(h[k], Next1(h, k), q) > 0

\* every point of S is on or inside the polygon h
Encloses(h, S) ==
    \A p \in S : \E a, b, c \in Range(h) : InTriangle(p, a, b, c)

----------------------------------------------------------------------------
\* Inputs of solve and brute_force

MaxX == 4
MaxY == 3
MaxBase == 3

\* the points of S in ascending x, for S with distinct x-coordinates
RECURSIVE Ascending(_)
Ascending(S) ==
    IF S = {} THEN <<>>
    ELSE LET p == CHOOSE q \in S : \A r \in S : q[1] <= r[1]
         IN  <<p>> \o Ascending(S \ {p})

Reverse(s) == [k \in 1..Len(s) |-> s[Len(s) + 1 - k]]

\* the square with its centre: (0,0), (4,0), (4,4), (0,4), (2,2)
Square == <<<<0, 0>>, <<4, 0>>, <<4, 4>>, <<0, 4>>, <<2, 2>>>>
SquareBase == Len(Square)

\* sets of points in general position, one point with y in 0..maxY in each
\* of some of the columns cols
SetsOn(cols, maxY) ==
    {S \in UNION {{{<<x, f[x]>> : x \in c} : f \in [c -> 0..maxY]} :
                      c \in (SUBSET cols) \ {{}}} : GeneralPosition(S)}

\* lists in general position, in ascending and in descending x
PointLists(maxX, maxY) ==
    LET sets == SetsOn(0..maxX, maxY)
    IN  {Ascending(S) : S \in sets} \cup {Reverse(Ascending(S)) : S \in sets}

idleFinger ==
    /\ left_sub = <<>> /\ right_sub = <<>> /\ vert = 0 /\ i = 0 /\ j = 0
    /\ moves = 0 /\ visited = {} /\ upper_tangent = <<>> /\ lower_tangent = <<>>
idleHull   == points = <<>> /\ n = 0 /\ result = None
idleMedian == nums = <<>> /\ median = None
idleWis    == intervals = <<>> /\ wis = None

\* solve(points, n) is called
InitSolve ==
    /\ pc = "solve"
    /\ \/ points \in PointLists(MaxX, MaxY) /\ n \in 1..MaxBase
       \/ points = Square /\ n \in SquareBase..(SquareBase + 1)
    /\ result = None
    /\ idleFinger /\ idleMedian /\ idleWis

\* solve runs to its return or to the exception it raises
Solve ==
    /\ pc = "solve"
    /\ result' = solve(points, n)
    /\ pc' = IF result'.status = "ok" THEN "returned" ELSE "raised"
    /\ UNCHANGED <<points, n, fingerVars, medianVars, wisVars>>

NextSolve == Solve
SpecSolve == InitSolve /\ [][NextSolve]_vars

\* brute_force(points) is called
InitBrute ==
    /\ pc = "brute_force"
    /\ points \in PointLists(MaxX, MaxY)
    /\ n = 0
    /\ result = None
    /\ idleFinger /\ idleMedian /\ idleWis

\* brute_force runs to its return or to the exception it raises
BruteForce ==
    /\ pc = "brute_force"
    /\ result' = brute_force(points)
    /\ pc' = IF result'.status = "ok" THEN "returned" ELSE "raised"
    /\ UNCHANGED <<points, n, fingerVars, medianVars, wisVars>>

NextBrute == BruteForce
SpecBrute == InitBrute /\ [][NextBrute]_vars


----------------------------------------------------------------------------
\* Claims about solve and brute_force

ValidInput == GeneralPosition(Range(points))

\* C1: for every list of at least 3 points in general position and every
\* positive base-case size, solve returns a sequence of input points that
\* forms a convex polygon in the returned order and encloses every input point.
C1_SolveReturnsHull ==
    (pc # "solve" /\ ValidInput /\ Len(points) >= 3) =>
        /\ result.status = "ok"
        /\ Range(result.value) \subseteq Range(points)
        /\ ConvexPolygon(result.value)
        /\ Encloses(result.value, Range(points))

\* C2: for every valid point list and any two positive base-case sizes,
\* solve returns with both, and returns the same set of hull points (stated
\* here for the lists of at least 3 points).
C2_BaseSizeInvariant ==
    (pc # "solve" /\ ValidInput /\ Len(points) >= 3) =>
        \A n2 \in 1..MaxBase :
            /\ result.status = "ok"
            /\ solve(points, n2).status = "ok"
            /\ Range(solve(points, n2).value) = Range(result.value)

\* C3: for the square with its centre and a base-case size of at least 5,
\* solve returns exactly the four corners, in clockwise order.
C3_SquareScenario ==
    (pc # "solve" /\ points = Square /\ n >= SquareBase) =>
        /\ result.status = "ok"
        /\ Len(result.value) = 4
        /\ Range(result.value) = {<<0, 0>>, <<4, 0>>, <<4, 4>>, <<0, 4>>}
        /\ ClockwiseConvex(result.value)

\* C9: for every list of 2 or more points in general position, brute_force
\* returns without error exactly the vertices of the convex hull, each once,
\* in clockwise order.
C9_BruteForceHull ==
    (pc # "brute_force" /\ ValidInput /\ Len(points) >= 2) =>
        /\ result.status = "ok"
        /\ Range(result.value) = HullVertices(Range(points))
        /\ ClockwiseConvex(result.value)


----------------------------------------------------------------------------
\* Inputs of two_finger and cut_and_paste

HullMaxX == 5
HullMaxY == 2
AnyLen == 3

LeftColumns  == 0..(HullMaxX \div 2)
RightColumns == ((HullMaxX \div 2) + 1)..HullMaxX

Leftmost(S)  == CHOOSE p \in S : \A q \in S : p[1] <= q[1]
Rightmost(S) == CHOOSE p \in S : \A q \in S : p[1] >= q[1]

\* hull vertices strictly above, and strictly below, the line from the
\* leftmost to the rightmost point
UpperChain(S) == {p \in HullVertices(S) : cross(Leftmost(S), Rightmost(S), p) > 0}
LowerChain(S) == {p \in HullVertices(S) : cross(Leftmost(S), Rightmost(S), p) < 0}

\* the convex hull of S, clockwise, from its rightmost point
HullFromRight(S) ==
    IF Cardinality(S) = 1 THEN <<Leftmost(S)>>
    ELSE <<Rightmost(S)>> \o Reverse(Ascending(LowerChain(S)))
             \o <<Leftmost(S)>> \o Ascending(UpperChain(S))

\* the convex hull of S, clockwise, from its leftmost point
HullFromLeft(S) ==
    IF Cardinality(S) = 1 THEN <<Leftmost(S)>>
    ELSE <<Leftmost(S)>> \o Ascending(UpperChain(S))
             \o <<Rightmost(S)>> \o Reverse(Ascending(LowerChain(S)))

\* the hulls of the point sets on the left columns, from their rightmost
\* point, and of those on the right columns, from their leftmost point
LeftHulls(maxY)  == {HullFromRight(S) : S \in SetsOn(LeftColumns, maxY)}
RightHulls(maxY) == {HullFromLeft(S) : S \in SetsOn(RightColumns, maxY)}

\* the doubled dividers next to the left hull and next to the right hull
Dividers(l, r) ==
    {2 * Rightmost(Range(l))[1] + 1, 2 * Leftmost(Range(r))[1] - 1}

\* any lists, repetitions included, of three points on each side
AnyLeft  == {<<0, 0>>, <<1, 2>>, <<2, 1>>}
AnyRight == {<<3, 1>>, <<4, 2>>, <<5, 0>>}
ListsOver(S, maxLen) == UNION {[1..k -> S] : k \in 1..maxLen}

\* the pairs of hulls given to two_finger: hulls of point sets, and any lists
FingerInputs(maxY, maxLen) ==
    (LeftHulls(maxY) \X RightHulls(maxY))
        \cup (ListsOver(AnyLeft, maxLen) \X ListsOver(AnyRight, maxLen))

\* two_finger(left_sub, right_sub, vert) is called
InitTwoFinger ==
    /\ pc = "upper"
    /\ \E input \in FingerInputs(HullMaxY, AnyLen) :
           /\ left_sub = input[1]
           /\ right_sub = input[2]
           /\ vert \in Dividers(input[1], input[2])
    /\ i = 0 /\ j = 0 /\ moves = 0 /\ visited = {<<0, 0>>}
    /\ upper_tangent = <<>> /\ lower_tangent = <<>>
    /\ idleHull /\ idleMedian /\ idleWis

\* one iteration of the first while loop; its break sets upper_tangent and
\* resets the fingers for the second loop
UpperIteration ==
    /\ pc = "upper"
    /\ LET mv == upperMove(left_sub, right_sub, vert, i, j)
       IN  /\ pc' = CASE mv.kind = "error" -> "raised"
                      [] mv.kind = "stop"  -> "lower"
                      [] OTHER             -> "upper"
           /\ i' = IF mv.kind = "stop" THEN 0 ELSE mv.i
           /\ j' = IF mv.kind = "stop" THEN 0 ELSE mv.j
           /\ moves' = IF mv.kind \in {"left", "right"} THEN moves + 1 ELSE 0
           /\ visited' = IF mv.kind \in {"left", "right"}
                         THEN visited \cup {<<mv.i, mv.j>>} ELSE {<<0, 0>>}
           /\ upper_tangent' = IF mv.kind = "stop"
                               THEN <<At(left_sub, i), At(right_sub, j)>>
                               ELSE upper_tangent
    /\ UNCHANGED <<left_sub, right_sub, vert, lower_tangent>>
    /\ UNCHANGED <<hullVars, medianVars, wisVars>>

\* one iteration of the second while loop; its break sets lower_tangent and
\* two_finger returns
LowerIteration ==
    /\ pc = "lower"
    /\ LET mv == lowerMove(left_sub, right_sub, vert, i, j)
       IN  /\ pc' = CASE mv.kind = "error" -> "raised"
                      [] mv.kind = "stop"  -> "returned"
                      [] OTHER             -> "lower"
           /\ i' = mv.i
           /\ j' = mv.j
           /\ moves' = IF mv.kind \in {"left", "right"} THEN moves + 1 ELSE moves
           /\ visited' = IF mv.kind \in {"left", "right"}
                         THEN visited \cup {<<mv.i, mv.j>>} ELSE visited
           /\ lower_tangent' = IF mv.kind = "stop"
                               THEN <<At(left_sub, i), At(right_sub, j)>>
                               ELSE lower_tangent
    /\ UNCHANGED <<left_sub, right_sub, vert, upper_tangent>>
    /\ UNCHANGED <<hullVars, medianVars, wisVars>>

NextTwoFinger == UpperIteration \/ LowerIteration
SpecTwoFinger == InitTwoFinger /\ [][NextTwoFinger]_vars


----------------------------------------------------------------------------
\* Claims about two_finger

\* both hulls convex and clockwise, strictly separated by the divider, in
\* general position together, the left hull starting at its rightmost point
\* and the right hull at its leftmost point
ValidHullPair ==
    /\ ClockwiseConvex(left_sub)
    /\ ClockwiseConvex(right_sub)
    /\ \A p \in Range(left_sub) : 2 * p[1] < vert
    /\ \A p \in Range(right_sub) : 2 * p[1] > vert
    /\ GeneralPosition(Range(left_sub) \cup Range(right_sub))
    /\ left_sub[1] = Rightmost(Range(left_sub))
    /\ right_sub[1] = Leftmost(Range(right_sub))

BothHulls == Range(left_sub) \cup Range(right_sub)

\* C7: on a valid pair of hulls two_finger returns an upper pair with no
\* point of either hull strictly above the line through it, and a lower pair
\* with no point of either hull strictly below the line through it.
C7_TrueTangents ==
    (pc = "returned" /\ ValidHullPair) =>
        /\ upper_tangent \in Range(left_sub) \X Range(right_sub)
        /\ lower_tangent \in Range(left_sub) \X Range(right_sub)
        /\ \A p \in BothHulls : cross(upper_tangent[1], upper_tangent[2], p) <= 0
        /\ \A p \in BothHulls : cross(lower_tangent[1], lower_tangent[2], p) >= 0

\* two_finger has returned on a valid pair of hulls of three or more points
\* each, after moving both fingers in the upper search and in the lower search
C7_Witness ==
    /\ pc = "returned" /\ ValidHullPair
    /\ Len(left_sub) >= 3 /\ Len(right_sub) >= 3
    /\ upper_tangent[1] # left_sub[1] /\ upper_tangent[2] # right_sub[1]
    /\ lower_tangent[1] # left_sub[1] /\ lower_tangent[2] # right_sub[1]

\* the intercept of the line through the finger pair <<a, b>> at the divider
Intercept(a, b) == vert_intercept(At(left_sub, a), At(right_sub, b), vert)

\* a step of either search loop that moves a finger
FingerMove == pc \in {"upper", "lower"} /\ pc' = pc

\* the right finger's neighbour in the direction of the running search
RightNeighbour == IF pc = "upper" THEN (j + 1) % Len(right_sub)
                  ELSE (j - 1) % Len(right_sub)
LeftNeighbour  == IF pc = "upper" THEN (i - 1) % Len(left_sub)
                  ELSE (i + 1) % Len(left_sub)

Improves(a, b) == IF pc = "upper" THEN greater(Intercept(a, b), Intercept(i, j))
                  ELSE greater(Intercept(i, j), Intercept(a, b))

\* C10: in both search loops every finger move strictly improves the
\* intercept at the divider (larger in the upper search, smaller in the lower
\* search), the right finger is moved whenever moving it improves, no finger
\* pair is visited twice, and a loop makes at most |L| * |R| moves.
C10_StrictImprovement ==
    [][FingerMove =>
        /\ Improves(i', j')
        /\ \/ i' = i /\ j' = RightNeighbour
           \/ i' = LeftNeighbour /\ j' = j /\ ~ Improves(i, RightNeighbour)
        /\ <<i', j'>> \notin visited
        /\ moves' = moves + 1
        /\ moves' <= Len(left_sub) * Len(right_sub)]_vars

\* the lower search has moved both fingers, three moves or more in all
C10_Witness ==
    /\ pc = "lower" /\ moves >= 3 /\ i # 0 /\ j # 0


----------------------------------------------------------------------------
\* cut_and_paste on two hulls and their true tangents

MaxShift == 1

\* h read from its element k + 1 on: a cyclic shift
Shifted(h, k) == [m \in 1..Len(h) |-> h[((m - 1 + k) % Len(h)) + 1]]

\* the pair of a left and a right point with no point of either hull strictly
\* above (below) the line through it
TrueUpper(l, r) ==
    CHOOSE t \in Range(l) \X Range(r) :
        \A p \in Range(l) \cup Range(r) : cross(t[1], t[2], p) <= 0
TrueLower(l, r) ==
    CHOOSE t \in Range(l) \X Range(r) :
        \A p \in Range(l) \cup Range(r) : cross(t[1], t[2], p) >= 0

\* the pairs of a left and a right hull that are in general position together
HullPairs(maxY) ==
    {pr \in LeftHulls(maxY) \X RightHulls(maxY) :
        GeneralPosition(Range(pr[1]) \cup Range(pr[2]))}

\* cut_and_paste(left_sub, right_sub, upper_tangent, lower_tangent) is called
\* with two clockwise hulls, each from any of its points, and their tangents
InitCutPaste ==
    /\ pc = "cut_and_paste"
    /\ \E input \in HullPairs(HullMaxY) : \E shift \in 0..MaxShift :
           /\ left_sub = Shifted(input[1], shift)
           /\ right_sub = Shifted(input[2], shift)
           /\ upper_tangent = TrueUpper(input[1], input[2])
           /\ lower_tangent = TrueLower(input[1], input[2])
    /\ vert = 0 /\ i = 0 /\ j = 0 /\ moves = 0 /\ visited = {}
    /\ idleHull /\ idleMedian /\ idleWis

\* cut_and_paste runs to its return
CutAndPaste ==
    /\ pc = "cut_and_paste"
    /\ result' = cut_and_paste(left_sub, right_sub, upper_tangent, lower_tangent)
    /\ pc' = IF result'.status = "ok" THEN "returned" ELSE "raised"
    /\ UNCHANGED <<points, n, fingerVars, medianVars, wisVars>>

NextCutPaste == CutAndPaste
SpecCutPaste == InitCutPaste /\ [][NextCutPaste]_vars

\* h is <<first>>, then points of r from a to b, then points of l from c on
ChainOrder(h, first, l, r, a, b, c) ==
    /\ h[1] = first
    /\ Len(h) >= 2 /\ h[2] = a
    /\ \E k \in 2..Len(h) :
           /\ h[k] = b
           /\ \A m \in 2..k : h[m] \in Range(r)
           /\ \A m \in (k + 1)..Len(h) : h[m] \in Range(l)
           /\ k < Len(h) => h[k + 1] = c

\* C8: given two clockwise hulls and their true tangents, cut_and_paste
\* returns a sequence that starts with the upper tangent's left point, holds
\* each point once, and lists exactly the vertices of the convex hull of both
\* hulls in clockwise order: the right chain from the upper to the lower
\* tangent point, then the left chain from the lower tangent point on.
C8_MergedHull ==
    pc # "cut_and_paste" =>
        /\ result.status = "ok"
        /\ ChainOrder(result.value, upper_tangent[1], left_sub, right_sub,
                      upper_tangent[2], lower_tangent[2], lower_tangent[1])
        /\ Range(result.value) = HullVertices(BothHulls)
        /\ ClockwiseConvex(result.value)

\* cut_and_paste has returned where the left hull, of two or more points and
\* not listed from its tangent point, gives a single point because its upper
\* and lower tangent points coincide, and the right hull has three or more
C8_Witness ==
    /\ pc = "returned"
    /\ Len(left_sub) >= 2 /\ Len(right_sub) >= 3
    /\ upper_tangent[1] = lower_tangent[1]
    /\ upper_tangent[2] # lower_tangent[2]
    /\ left_sub[1] # upper_tangent[1]
    /\ Len(result.value) < Len(left_sub) + Len(right_sub)

----------------------------------------------------------------------------
\* MedianFinding.py.  A number x is kept as the integer Unit * x, so that the
\* halves and quarters made by (lower + upper) * 0.5 stay integers: the
\* inputs are integers, a median of a column is a half, and a pivot, the
\* median of at most 5 column medians, is a quarter.

Unit == 2 * 2

\* (lower + upper) * 0.5
mean(lower, upper) == (lower + upper) \div 2

\* sorted(nums)
RECURSIVE sorted(_)
sorted(s) ==
    IF s = <<>> THEN <<>>
    ELSE LET init == sorted(SubSeq(s, 1, Len(s) - 1))
             x    == s[Len(s)]
             k    == Cardinality({q \in 1..Len(init) : init[q] <= x})
         IN  SubSeq(init, 1, k) \o <<x>> \o SubSeq(init, k + 1, Len(init))

\* naive_median(nums), for a non-empty list
naive_median(s) ==
    LET srt == sorted(s)
    IN  IF Len(s) % 2 = 1 THEN At(srt, Len(s) \div 2)
        ELSE mean(At(srt, (Len(s) \div 2) - 1), At(srt, Len(s) \div 2))

\* columnize(nums): groups of 5 in list order, each sorted in descending order
RECURSIVE columnize(_)
columnize(s) ==
    IF s = <<>> THEN <<>>
    ELSE LET m == IF Len(s) < 5 THEN Len(s) ELSE 5
         IN  <<Reverse(sorted(SubSeq(s, 1, m)))>> \o columnize(SubSeq(s, m + 1, Len(s)))

\* the median of one column, as median_of_medians takes it
columnMedian(col) ==
    IF Len(col) % 2 = 1 THEN At(col, Len(col) \div 2)
    ELSE mean(At(col, (Len(col) \div 2) - 1), At(col, Len(col) \div 2))

RECURSIVE quick_select(_, _)
RECURSIVE median_of_medians(_)

\* Mutant of quick_select_median: an even list gives its upper middle element
quick_select_median_upper(s) == quick_select(s, Len(s) \div 2)

\* quick_select_median(nums, f) with f = median_of_medians
quick_select_median(s) ==
    IF Len(s) % 2 = 1 THEN quick_select(s, Len(s) \div 2)
    ELSE mean(quick_select(s, (Len(s) \div 2) - 1), quick_select(s, Len(s) \div 2))

\* quick_select(nums, k, f) with f = median_of_medians, for a non-empty list
quick_select(s, k) ==
    IF Len(s) = 1 THEN s[1]
    ELSE LET pivot  == median_of_medians(s)
             lows   == SelectSeq(s, LAMBDA x : x < pivot)
             highs  == SelectSeq(s, LAMBDA x : x > pivot)
             pivots == SelectSeq(s, LAMBDA x : x = pivot)
         IN  IF k < Len(lows) THEN quick_select(lows, k)
             ELSE IF k < Len(lows) + Len(pivots) THEN pivot
             ELSE quick_select(highs, k - Len(lows) - Len(pivots))

\* median_of_medians(nums)
median_of_medians(s) ==
    IF Len(s) <= 5 THEN naive_median(s)
    ELSE LET columns == columnize(s)
             medians == [c \in 1..Len(columns) |-> columnMedian(columns[c])]
         IN  quick_select_median(medians)

\* fast_median(nums); on an empty list naive_median indexes nums[-1]
fast_median(s) ==
    IF s = <<>> THEN Err("IndexError") ELSE Ok(quick_select_median(s))

MaxNums == 6
MaxNum == 3

\* the lists of at most MaxNums integers in 0..MaxNum
NumLists(maxLen, maxNum) ==
    UNION {[1..k -> {Unit * x : x \in 0..maxNum}] : k \in 0..maxLen}

\* fast_median(nums) is called
InitMedian ==
    /\ pc = "fast_median"
    /\ nums \in NumLists(MaxNums, MaxNum)
    /\ median = None
    /\ idleHull /\ idleFinger /\ idleWis

\* fast_median runs to its return or to the exception it raises
FastMedian ==
    /\ pc = "fast_median"
    /\ median' = fast_median(nums)
    /\ pc' = IF median'.status = "ok" THEN "returned" ELSE "raised"
    /\ UNCHANGED <<nums, hullVars, fingerVars, wisVars>>

NextMedian == FastMedian
SpecMedian == InitMedian /\ [][NextMedian]_vars

\* the number of entries of s below, and not above, v
Below(s, v)    == Cardinality({k \in 1..Len(s) : s[k] < v})
NotAbove(s, v) == Cardinality({k \in 1..Len(s) : s[k] <= v})

\* the element of rank k (from 0) in the order of s
Ranked(s, k) == CHOOSE v \in Range(s) : Below(s, v) <= k /\ k < NotAbove(s, v)

\* C4: for every non-empty list of integers fast_median returns what
\* naive_median returns: the middle element in sorted order for an odd
\* length, the mean of the two middle elements for an even length.
C4_FastMedian ==
    (pc # "fast_median" /\ nums # <<>>) =>
        /\ median.status = "ok"
        /\ median.value = naive_median(nums)
        /\ Len(nums) % 2 = 1 => median.value = Ranked(nums, Len(nums) \div 2)
        /\ Len(nums) % 2 = 0 =>
               2 * median.value = Ranked(nums, (Len(nums) \div 2) - 1)
                                      + Ranked(nums, Len(nums) \div 2)

\* fast_median has returned on a list of more than 5 numbers, of even length,
\* with repeated values, whose median is no element of the list
C4_Witness ==
    /\ pc = "returned"
    /\ Len(nums) > 5 /\ Len(nums) % 2 = 0
    /\ \E a, b \in 1..Len(nums) : a # b /\ nums[a] = nums[b]
    /\ median.value \notin Range(nums)


----------------------------------------------------------------------------
\* WeightedIntervalScheduling.py: an interval is <<start, finish, weight>>

\* s[k] as Python indexes a list: a negative k counts from the end
Item(s, k) == IF k >= 0 THEN s[k + 1] ELSE s[Len(s) + k + 1]

\* intervals.sort(key=lambda x: x[1]): a stable sort by finish time
RECURSIVE sortByFinish(_)
sortByFinish(s) ==
    IF s = <<>> THEN <<>>
    ELSE LET init == sortByFinish(SubSeq(s, 1, Len(s) - 1))
             x    == s[Len(s)]
             k    == Cardinality({q \in 1..Len(init) : init[q][2] <= x[2]})
         IN  SubSeq(init, 1, k) \o <<x>> \o SubSeq(init, k + 1, Len(init))

\* find_pci(intervals, curr, a, b)
RECURSIVE find_pci(_, _, _, _)
find_pci(sub, curr, a, b) ==
    LET curr_start == curr[1]
        m          == (a + b) \div 2
        mid_finish == Item(sub, m)[2]
    IN  IF Item(sub, b)[2] <= curr_start THEN b
        ELSE IF a > b THEN 0
        ELSE IF curr_start < mid_finish THEN find_pci(sub, curr, a, m - 1)
        ELSE find_pci(sub, curr, m + 1, b)

\* p of the loop body of optimize_wis, for the sorted list srt
pci(srt, k) == find_pci(SubSeq(srt, 1, k), At(srt, k), 0, k - 1)

\* arr after the loop body of optimize_wis has run for 1, ..., k
RECURSIVE table(_, _)
table(srt, k) ==
    IF k <= 0 THEN <<0>>
    ELSE LET arr == table(srt, k - 1)
             p   == pci(srt, k)
             w   == At(srt, k)[3]
             a   == w + Item(arr, p)
             b   == Item(arr, k - 1)
         IN  Append(arr, IF a >= b THEN a ELSE b)

\* optimize_wis(intervals), on the list it has sorted
optimize_wis(srt) ==
    [arr  |-> table(srt, Len(srt) - 1),
     memo |-> [k \in 1..(Len(srt) - 1) |-> pci(srt, k)]]

\* traceback(intervals, arr, memo, j).  set() is a set; the value of
\* set.add(...) is None; None.add raises AttributeError; intervals[-1] of an
\* empty list raises IndexError.
RECURSIVE traceback(_, _, _, _)
traceback(srt, arr, memo, k) ==
    IF k = 0 THEN [kind |-> "set", value |-> {}]
    ELSE IF srt = <<>> THEN [kind |-> "IndexError", value |-> {}]
    ELSE LET curr == Item(srt, k)
             w    == curr[3]
             p    == memo[k]
         IN  IF w + Item(arr, p) > Item(arr, k - 1)
             THEN LET inner == traceback(srt, arr, memo, p)
                  IN  IF inner.kind = "set" THEN [kind |-> "None", value |-> {}]
                      ELSE IF inner.kind = "None"
                           THEN [kind |-> "AttributeError", value |-> {}]
                      ELSE inner
             ELSE traceback(srt, arr, memo, k - 1)

\* solve_wis(intervals), on the list optimize_wis has sorted
solve_wis(srt) ==
    LET res    == optimize_wis(srt)
        subset == traceback(srt, res.arr, res.memo, Len(srt) - 1)
    IN  IF subset.kind \in {"set", "None"}
        THEN Ok([maxWeight |-> Item(res.arr, -1), subset |-> subset])
        ELSE Err(subset.kind)

MaxTime == 2
MaxWeight == 2
MaxIntervals == 3

\* the intervals with start <= finish <= maxTime and a weight in 0..maxWeight
Intervals(maxTime, maxWeight) ==
    {iv \in (0..maxTime) \X (0..maxTime) \X (0..maxWeight) : iv[1] <= iv[2]}

IntervalLists(maxTime, maxWeight, maxLen) ==
    UNION {[1..k -> Intervals(maxTime, maxWeight)] : k \in 0..maxLen}

\* solve_wis(intervals) is called
InitWis ==
    /\ pc = "solve_wis"
    /\ intervals \in IntervalLists(MaxTime, MaxWeight, MaxIntervals)
    /\ wis = None
    /\ idleHull /\ idleFinger /\ idleMedian

\* solve_wis runs to its return or to the exception it raises; the caller's
\* list has been sorted in place by then
SolveWis ==
    /\ pc = "solve_wis"
    /\ intervals' = sortByFinish(intervals)
    /\ wis' = solve_wis(intervals')
    /\ pc' = IF wis'.status = "ok" THEN "returned" ELSE "raised"
    /\ UNCHANGED <<hullVars, fingerVars, medianVars>>

NextWis == SolveWis
SpecWis == InitWis /\ [][NextWis]_vars

\* one of the two intervals finishes at or before the other starts
Compatible(a, b) == a[2] <= b[1] \/ b[2] <= a[1]

\* the total weight of the intervals of s at the positions in I
RECURSIVE WeightAt(_, _)
WeightAt(s, I) ==
    IF I = {} THEN 0
    ELSE LET k == CHOOSE q \in I : TRUE IN s[k][3] + WeightAt(s, I \ {k})

\* the sets of positions of s whose intervals are pairwise compatible
Schedules(s) ==
    {I \in SUBSET (1..Len(s)) :
        \A a, b \in I : a # b => Compatible(s[a], s[b])}

\* the maximum total weight of a set of pairwise compatible intervals of s
Optimum(s) ==
    CHOOSE v \in {WeightAt(s, I) : I \in Schedules(s)} :
        \A I \in Schedules(s) : WeightAt(s, I) <= v

\* C5: for every non-empty list of intervals with start <= finish and a
\* non-negative weight, the weight solve_wis reports, the last element of
\* the table of optimize_wis, is the maximum total weight of a set of
\* pairwise compatible input intervals.
C5_MaxWeight ==
    (wis.status = "ok" /\ intervals # <<>>) =>
        wis.value.maxWeight = Optimum(intervals)

\* the total weight of a set of intervals
RECURSIVE TotalWeight(_)
TotalWeight(S) ==
    IF S = {} THEN 0
    ELSE LET iv == CHOOSE q \in S : TRUE IN iv[3] + TotalWeight(S \ {iv})

\* C6: for every non-empty list of intervals solve_wis returns, with the
\* maximal weight, a set of input intervals that are pairwise compatible and
\* whose weights sum to the weight returned.
C6_Subset ==
    (pc # "solve_wis" /\ intervals # <<>>) =>
        /\ wis.status = "ok"
        /\ wis.value.subset.kind = "set"
        /\ wis.value.subset.value \subseteq Range(intervals)
        /\ \A a, b \in wis.value.subset.value : a # b => Compatible(a, b)
        /\ TotalWeight(wis.value.subset.value) = wis.value.maxWeight


----------------------------------------------------------------------------
\* One call of solve.recurse on a list longer than the base-case size, with
\* its two rotate loops taken one rotation at a time.  points is the sorted
\* list of the call, left_sub and right_sub are left_hull and right_hull.

\* Mutant of rotate: the first two elements change places
rotateSwap(hull) ==
    IF Len(hull) < 2 THEN hull
    ELSE <<hull[2], hull[1]>> \o SubSeq(hull, 3, Len(hull))

\* deque.rotate(1): the last element becomes the first
rotate(hull) == <<hull[Len(hull)]>> \o SubSeq(hull, 1, Len(hull) - 1)

MergeMaxX == 6

\* no row holds 3 points in general position: MergeMaxX + 1 columns need
\* the rows 0..MergeMaxY at the least
MergeMaxY == MergeMaxX \div 2

\* the lists in general position with one point in each of the columns
\* 0..k, in ascending x, with y in 0..maxY
RECURSIVE Columns(_, _)
Columns(k, maxY) ==
    IF k < 0 THEN {<<>>}
    ELSE UNION {{Append(s, <<k, y>>) :
                    y \in {y \in 0..maxY : GeneralPosition(Range(s) \cup {<<k, y>>})}} :
                s \in Columns(k - 1, maxY)}

\* the sorted lists recurse is called on
MergeLists(maxX, maxY) == UNION {Columns(k, maxY) : k \in 0..maxX}

\* left_points, right_points and the points the rotate loops wait for
left_points  == divide(points)[1]
right_points == divide(points)[2]
leftTarget   == left_points[Len(left_points)]
rightTarget  == right_points[1]

\* recurse(points, vertical) is called on a sorted list
InitMerge ==
    /\ pc = "recurse"
    /\ \E input \in MergeLists(MergeMaxX, MergeMaxY) : points = input
    /\ n \in 1..MaxBase
    /\ result = None
    /\ idleFinger /\ idleMedian /\ idleWis

\* len(points) <= n: the base case
BaseCase ==
    /\ pc = "recurse"
    /\ Len(points) <= n
    /\ result' = brute_force(points)
    /\ pc' = IF result'.status = "ok" THEN "returned" ELSE "raised"
    /\ UNCHANGED <<points, n, fingerVars, medianVars, wisVars>>

\* DIVIDE: the vertical and the two recursive calls, up to the first loop
Divide ==
    /\ pc = "recurse"
    /\ Len(points) > n
    /\ LET vertical   == compute_vertical(left_points, right_points)
           left_hull  == recurse(left_points, n)
           right_hull == recurse(right_points, n)
           raised     == IF vertical.status # "ok" THEN vertical
                         ELSE IF left_hull.status # "ok" THEN left_hull
                         ELSE right_hull
       IN  IF raised.status # "ok"
           THEN /\ result' = raised
                /\ pc' = "raised"
                /\ UNCHANGED <<left_sub, right_sub, vert>>
           ELSE /\ left_sub' = left_hull.value
                /\ right_sub' = right_hull.value
                /\ vert' = vertical.value
                /\ pc' = "rotate_left"
                /\ UNCHANGED result
    /\ UNCHANGED <<points, n, i, j, moves, visited, upper_tangent, lower_tangent,
                   medianVars, wisVars>>

\* while left_hull[0] != left_points[-1]: left_hull.rotate(1)
RotateLeft ==
    /\ pc = "rotate_left"
    /\ left_sub[1] # leftTarget
    /\ left_sub' = rotate(left_sub)
    /\ UNCHANGED <<pc, points, n, result, right_sub, vert, i, j, moves, visited,
                   upper_tangent, lower_tangent, medianVars, wisVars>>

\* the first loop ends
LeftRotated ==
    /\ pc = "rotate_left"
    /\ left_sub[1] = leftTarget
    /\ pc' = "rotate_right"
    /\ UNCHANGED <<hullVars, fingerVars, medianVars, wisVars>>

\* while right_hull[0] != right_points[0]: right_hull.rotate(1)
RotateRight ==
    /\ pc = "rotate_right"
    /\ right_sub[1] # rightTarget
    /\ right_sub' = rotate(right_sub)
    /\ UNCHANGED <<pc, points, n, result, left_sub, vert, i, j, moves, visited,
                   upper_tangent, lower_tangent, medianVars, wisVars>>

\* the second loop ends: two_finger, then cut_and_paste
Conquer ==
    /\ pc = "rotate_right"
    /\ right_sub[1] = rightTarget
    /\ LET tangents == two_finger(left_sub, right_sub, vert)
       IN  IF tangents.status # "ok"
           THEN /\ result' = tangents
                /\ UNCHANGED <<upper_tangent, lower_tangent>>
           ELSE /\ upper_tangent' = tangents.value[1]
                /\ lower_tangent' = tangents.value[2]
                /\ result' = cut_and_paste(left_sub, right_sub,
                                           upper_tangent', lower_tangent')
    /\ pc' = IF result'.status = "ok" THEN "returned" ELSE "raised"
    /\ UNCHANGED <<points, n, left_sub, right_sub, vert, i, j, moves, visited,
                   medianVars, wisVars>>

NextMerge ==
    \/ BaseCase
    \/ Divide
    \/ RotateLeft
    \/ LeftRotated
    \/ RotateRight
    \/ Conquer

SpecMerge == InitMerge /\ [][NextMerge]_vars

\* a running loop goes on: its next rotation, or the step that leaves it, is
\* taken whenever it can be
FairMerge == SpecMerge /\ WF_vars(RotateLeft \/ LeftRotated \/ RotateRight)

\* the pairs of a point of h and the point after it, going round
Successors(h) == {<<h[k], Next1(h, k)>> : k \in 1..Len(h)}

\* g is a cyclic shift of h: h read from another start, with the same points
\* and every point followed by the point that followed it in h
CyclicShiftOf(g, h) ==
    /\ \E k \in 0..(Len(h) - 1) : g = Shifted(h, k)
    /\ Range(g) = Range(h)
    /\ Successors(g) = Successors(h)

\* a rotate loop is running
Rotating == pc \in {"rotate_left", "rotate_right"}

\* the first loop has ended and the test of the second loop fails
LoopsEnded == pc = "rotate_right" /\ right_sub[1] = rightTarget

\* the hulls recurse returned for the two partitions
ReturnedLeft  == recurse(left_points, n).value
ReturnedRight == recurse(right_points, n).value

\* C11: at every merge step of solve on valid input the hull returned for
\* the left partition contains the partition's last point and the hull
\* returned for the right partition contains the partition's first point,
\* so that both rotate loops come to an end; and every rotation is a cyclic
\* shift, which leaves the points of the hull and their cyclic order as they
\* were.
C11_RotateLoops ==
    /\ [](Rotating =>
            /\ leftTarget \in Range(ReturnedLeft)
            /\ rightTarget \in Range(ReturnedRight)
            /\ CyclicShiftOf(left_sub, ReturnedLeft)
            /\ CyclicShiftOf(right_sub, ReturnedRight))
    /\ [][Rotating =>
            /\ CyclicShiftOf(left_sub', left_sub)
            /\ CyclicShiftOf(right_sub', right_sub)]_vars
    /\ (Rotating ~> LoopsEnded)

\* a merge has returned after both loops rotated a hull of 3 points or more,
\* the right of them the result of an earlier merge
C11_Witness ==
    /\ pc = "returned"
    /\ Len(points) > n
    /\ Len(right_points) > n
    /\ Len(left_sub) >= 3 /\ Len(right_sub) >= 3
    /\ left_sub # ReturnedLeft
    /\ right_sub # ReturnedRight
    /\ left_sub[1] = leftTarget
    /\ right_sub[1] = rightTarget


====
